---- MODULE Spec2Model ----
(***************************************************************************)
(* persistence2stats (mwpersistence/utilities/persistence2stats.py).       *)
(*                                                                         *)
(* A generator chain turns a stream of revision documents into the same    *)
(* stream with revision-level statistics merged into each document's       *)
(* 'persistence' dict, optionally followed by drop_tokens.                 *)
(*                                                                         *)
(* Representation:                                                         *)
(*  - a Python dict is a function whose DOMAIN is the set of its keys;     *)
(*  - seconds are integers; the caller's min_visible is a float, kept as   *)
(*    its numerator over Denom (min_visible = 3 with Denom = 2 is 1.5 s);  *)
(*  - a sum of natural logs  log(a) + log(b) + ...  is kept exactly as the *)
(*    product a * b * ... of its arguments (the sum is log of the product, *)
(*    and log is injective), so 0 = log(1) is the integer 1.               *)
(***************************************************************************)
EXTENDS Integers, Sequences, FiniteSets, TLC

VARIABLES
    args,       \* keyword arguments of the run (process_args' result)
    entry,      \* the generator the caller iterates
    source,     \* the documents handed to the current run, in order
    rev_docs,   \* what is left of the input iterable
    emitted,    \* the documents yielded to the caller so far, in order
    pc,         \* position of the generator chain
    rev_doc,    \* the document being processed
    stats_doc,  \* the stats_doc local of persistence2stats
    tok,        \* position of the token loop in persistence_doc['tokens']
    second      \* TRUE when the caller runs the chain on a previous output

vars == <<args, entry, source, rev_docs, emitted, pc, rev_doc, stats_doc,
          tok, second>>

----------------------------------------------------------------------------
(* Bounds of the model.                                                    *)

MaxTokens == 2
MaxDocs == 2

(* Resolution of the float min_visible: multiples of 1/Denom seconds.      *)
Denom == 2

----------------------------------------------------------------------------
(* Python dicts.                                                           *)

\* (variant: the dict is replaced by s instead of merged with it)
DictUpdateReplace(d, s) == s

\* d.update(s)
DictUpdate(d, s) ==
    [k \in (DOMAIN d) \cup (DOMAIN s) |-> IF k \in DOMAIN s THEN s[k] ELSE d[k]]

\* d.pop(k, None)
DictPop(d, k) == [x \in (DOMAIN d) \ {k} |-> d[x]]

StatKeys ==
    {"tokens_added", "persistent_tokens", "non_self_persistent_tokens",
     "sum_log_persisted", "sum_log_non_self_persisted",
     "sum_log_seconds_visible", "censored", "non_self_censored"}

WindowKeys == {"seconds_possible", "revisions_processed", "non_self_processed"}

RequiredKeys == {"tokens"} \cup WindowKeys

----------------------------------------------------------------------------
(* Numbers.                                                                *)

\* int(x) of a non-negative float x = n / Denom: truncation.
IntOf(n) == n \div Denom

\* the float n / Denom has no fractional part
Whole(n) == n % Denom = 0

\* acc + log(x), on the product representation
LogAdd(acc, x) == acc * x

\* int + bool
BoolToInt(b) == IF b THEN 1 ELSE 0

----------------------------------------------------------------------------
(* Filter predicates.  A predicate is None (not given) or a function of    *)
(* the token text, given by the set of texts it accepts.                   *)

NonePred == [none |-> TRUE, hits |-> {}]

Pred(S) == [none |-> FALSE, hits |-> S]

\* include = include if include is not None else lambda t: True
Include(a, text) == IF a.include.none THEN TRUE ELSE text \in a.include.hits

\* exclude = exclude if exclude is not None else lambda t: False
Exclude(a, text) == IF a.exclude.none THEN FALSE ELSE text \in a.exclude.hits

\* (variant: exclude is not consulted)
RetainedIncludeOnly(a, t) == Include(a, t.text)

\* the condition of the filtered_docs generator expression
Retained(a, t) == Include(a, t.text) /\ ~Exclude(a, t.text)

----------------------------------------------------------------------------
(* The body of the token loop, lines 150-179.  t is token_doc, p is        *)
(* persistence_doc, mp and mv are the int()-converted thresholds.          *)

\* (variant: the time threshold is not looked at)
PersistentIncrCountOnly(t, mp, mv) == BoolToInt(t.persisted >= mp)

\* lines 158-164: what the token adds to persistent_tokens
PersistentIncr(t, mp, mv) ==
    IF t.seconds_visible >= mv
    THEN 1
    ELSE BoolToInt(t.persisted >= mp)

\* lines 158-167: what the token adds to non_self_persistent_tokens
NonSelfPersistentIncr(t, mp, mv) ==
    IF t.seconds_visible >= mv
    THEN 1
    ELSE BoolToInt(t.non_self_persisted >= mp)

\* (variant: seconds_possible <= min_visible)
CensoredNextInclusive(c, t, p, mp, mv) ==
    IF t.seconds_visible >= mv
    THEN c
    ELSE IF p.seconds_possible <= mv
         THEN TRUE
         ELSE IF p.revisions_processed < mp THEN TRUE ELSE c

\* (variant: a token that meets the time threshold clears the flag)
CensoredNextAssigned(c, t, p, mp, mv) ==
    IF t.seconds_visible >= mv
    THEN FALSE
    ELSE IF p.seconds_possible < mv
         THEN TRUE
         ELSE IF p.revisions_processed < mp THEN TRUE ELSE c

\* lines 158, 170-176: stats_doc['censored'] after the token
CensoredNext(c, t, p, mp, mv) ==
    IF t.seconds_visible >= mv
    THEN c
    ELSE IF p.seconds_possible < mv
         THEN TRUE
         ELSE IF p.revisions_processed < mp THEN TRUE ELSE c

\* lines 158, 170-179: stats_doc['non_self_censored'] after the token
NonSelfCensoredNext(c, t, p, mp, mv) ==
    IF t.seconds_visible >= mv
    THEN c
    ELSE IF p.seconds_possible < mv
         THEN TRUE
         ELSE IF p.non_self_processed < mp THEN TRUE ELSE c

\* the keys of persistence_doc the loop body reads for this token; a key
\* that is absent raises KeyError at its first read (lines 170, 175, 178)
KeysRead(t, p, mv) ==
    IF t.seconds_visible >= mv
    THEN {}
    ELSE IF "seconds_possible" \notin DOMAIN p
         THEN {"seconds_possible"}
         ELSE IF p.seconds_possible < mv
              THEN {"seconds_possible"}
              ELSE WindowKeys

\* lines 132-141
NewStatsDoc ==
    [tokens_added |-> 0,
     persistent_tokens |-> 0,
     non_self_persistent_tokens |-> 0,
     sum_log_persisted |-> 1,
     sum_log_non_self_persisted |-> 1,
     sum_log_seconds_visible |-> 1,
     censored |-> FALSE,
     non_self_censored |-> FALSE]

\* lines 150-179: stats_doc after one retained token
TokenStats(s, t, p, mp, mv) ==
    [tokens_added |-> s.tokens_added + 1,
     persistent_tokens |-> s.persistent_tokens + PersistentIncr(t, mp, mv),
     non_self_persistent_tokens |->
         s.non_self_persistent_tokens + NonSelfPersistentIncr(t, mp, mv),
     sum_log_persisted |-> LogAdd(s.sum_log_persisted, t.persisted + 1),
     sum_log_non_self_persisted |->
         LogAdd(s.sum_log_non_self_persisted, t.non_self_persisted + 1),
     sum_log_seconds_visible |->
         LogAdd(s.sum_log_seconds_visible, t.seconds_visible + 1),
     censored |-> CensoredNext(s.censored, t, p, mp, mv),
     non_self_censored |->
         NonSelfCensoredNext(s.non_self_censored, t, p, mp, mv)]

\* lines 125-126
MinPersisted == args.min_persisted

MinVisible == IntOf(args.min_visible)

----------------------------------------------------------------------------
(* Inputs.                                                                 *)

Texts == {"apple", "berry"}

\* <<persisted, non_self_persisted>>: revisions by others are some of the
\* revisions, so non_self_persisted never exceeds persisted
Persisted == {<<0, 0>>, <<1, 0>>, <<2, 1>>}

Seconds == {0, 1}

Processed == {0, 1}

Tokens ==
    {[text |-> x, persisted |-> c[1], non_self_persisted |-> c[2],
      seconds_visible |-> v] : x \in Texts, c \in Persisted, v \in Seconds}

SeqsUpTo(S, n) == UNION {[1..m -> S] : m \in 0..n}

PersistenceDoc(toks, sp, rp, np) ==
    [tokens |-> toks, seconds_possible |-> sp, revisions_processed |-> rp,
     non_self_processed |-> np]

\* well-formed 'persistence' dicts as the upstream stage writes them
PersistenceDocs ==
    {PersistenceDoc(toks, sp, rp, np) :
        toks \in SeqsUpTo(Tokens, MaxTokens), sp \in Seconds,
        rp \in Processed, np \in Processed}

\* documents of a stream: a few well-formed dicts, and the same dicts with
\* one required key missing
ShortToken == [text |-> "apple", persisted |-> 1, non_self_persisted |-> 0,
               seconds_visible |-> 0]

LongToken == [text |-> "berry", persisted |-> 0, non_self_persisted |-> 0,
              seconds_visible |-> 1]

StreamPersistenceDocs ==
    LET wf == {PersistenceDoc(toks, 1, 0, 1) :
                  toks \in {<<>>, <<ShortToken>>, <<LongToken>>}}
    IN  wf \cup {DictPop(p, k) : p \in wf, k \in RequiredKeys}

\* the k-th document of a stream carries revision id k
Stream(ps) == [k \in DOMAIN ps |-> [rev_id |-> k, persistence |-> ps[k]]]

Entries == {"_persistence2stats", "drop_tokens"}

\* process_args' result: min_visible is float(hours) * 3600, here 1.0 s or
\* 1.5 s; include / exclude are None or a compiled pattern's matcher
ArgSets ==
    [min_persisted : {1},
     min_visible : {Denom, Denom + 1},
     keep_tokens : BOOLEAN,
     include : {NonePred, Pred({"apple"})},
     exclude : {NonePred, Pred({"apple"})}]

NoDoc == [rev_id |-> 0, persistence |-> <<>>]

InitRun(a, e, docs) ==
    /\ args = a
    /\ entry = e
    /\ source = docs
    /\ rev_docs = docs
    /\ emitted = <<>>
    /\ pc = "pull"
    /\ rev_doc = NoDoc
    /\ stats_doc = NewStatsDoc
    /\ tok = 0
    /\ second = FALSE

\* one well-formed document with any token list, any arguments
InitDocument ==
    \E a \in ArgSets, p \in PersistenceDocs :
        InitRun(a, "_persistence2stats", Stream(<<p>>))

\* a stream of documents, some malformed, through either generator
InitStream ==
    \E a \in ArgSets, e \in Entries,
       ps \in SeqsUpTo(StreamPersistenceDocs, MaxDocs) :
        /\ a.min_visible = Denom
        /\ a.include.none /\ a.exclude.none
        /\ e = "drop_tokens" => a.keep_tokens
        /\ InitRun(a, e, Stream(ps))

Init == InitDocument \/ InitStream

----------------------------------------------------------------------------
(* The generator chain.                                                    *)
(* rev_docs is the iterable after line 123: mwxml.utilities.normalize is   *)
(* a library generator that yields one document per input document, in    *)
(* input order.  The verbose writes to stderr (lines 146-148, 181-183)     *)
(* change no data and are left out.                                        *)

CurTokens == rev_doc.persistence.tokens

\* (variant: the newest document comes out first)
EmitFirst(out, doc) == <<doc>> \o out

\* yield: the caller receives the documents in the order they are yielded
Emit(out, doc) == Append(out, doc)

\* (variant: stats_doc starts from the statistics the document already has)
NextRevDocResume ==
    /\ pc = "pull"
    /\ entry = "_persistence2stats"
    /\ rev_docs # <<>>
    /\ "tokens" \in DOMAIN Head(rev_docs).persistence
    /\ rev_doc' = Head(rev_docs)
    /\ rev_docs' = Tail(rev_docs)
    /\ stats_doc' =
         LET p == Head(rev_docs).persistence
         IN  [k \in StatKeys |-> IF k \in DOMAIN p THEN p[k] ELSE NewStatsDoc[k]]
    /\ tok' = 1
    /\ pc' = "loop"
    /\ UNCHANGED <<args, entry, source, emitted, second>>

\* lines 130-143: the next document; persistence_doc['tokens'] is read when
\* the generator expression is built
NextRevDoc ==
    /\ pc = "pull"
    /\ entry = "_persistence2stats"
    /\ rev_docs # <<>>
    /\ "tokens" \in DOMAIN Head(rev_docs).persistence
    /\ rev_doc' = Head(rev_docs)
    /\ rev_docs' = Tail(rev_docs)
    /\ stats_doc' = NewStatsDoc
    /\ tok' = 1
    /\ pc' = "loop"
    /\ UNCHANGED <<args, entry, source, emitted, second>>

\* line 143: KeyError('tokens'); the generator ends, nothing is yielded
RaiseNoTokens ==
    /\ pc = "pull"
    /\ entry = "_persistence2stats"
    /\ rev_docs # <<>>
    /\ "tokens" \notin DOMAIN Head(rev_docs).persistence
    /\ rev_doc' = Head(rev_docs)
    /\ rev_docs' = Tail(rev_docs)
    /\ pc' = "raised"
    /\ UNCHANGED <<args, entry, source, emitted, stats_doc, tok, second>>

\* lines 143-145: a token the filter rejects
SkipToken ==
    /\ pc = "loop"
    /\ tok <= Len(CurTokens)
    /\ ~Retained(args, CurTokens[tok])
    /\ tok' = tok + 1
    /\ UNCHANGED <<args, entry, source, rev_docs, emitted, pc, rev_doc,
                   stats_doc, second>>

\* lines 145-179: a retained token
FoldToken ==
    /\ pc = "loop"
    /\ tok <= Len(CurTokens)
    /\ Retained(args, CurTokens[tok])
    /\ KeysRead(CurTokens[tok], rev_doc.persistence, MinVisible)
          \subseteq DOMAIN rev_doc.persistence
    /\ stats_doc' = TokenStats(stats_doc, CurTokens[tok], rev_doc.persistence,
                               MinPersisted, MinVisible)
    /\ tok' = tok + 1
    /\ UNCHANGED <<args, entry, source, rev_docs, emitted, pc, rev_doc, second>>

\* lines 170, 175, 178: KeyError on a window field the token makes the loop
\* read; rev_doc is not updated and not yielded
RaiseKeyError ==
    /\ pc = "loop"
    /\ tok <= Len(CurTokens)
    /\ Retained(args, CurTokens[tok])
    /\ ~(KeysRead(CurTokens[tok], rev_doc.persistence, MinVisible)
          \subseteq DOMAIN rev_doc.persistence)
    /\ pc' = "raised"
    /\ UNCHANGED <<args, entry, source, rev_docs, emitted, rev_doc, stats_doc,
                   tok, second>>

\* lines 185-187, then line 76: the document goes to drop_tokens or out
Update ==
    /\ pc = "loop"
    /\ tok > Len(CurTokens)
    /\ rev_doc' = [rev_doc EXCEPT
                     !.persistence = DictUpdate(rev_doc.persistence, stats_doc)]
    /\ IF args.keep_tokens
       THEN /\ emitted' = Emit(emitted, rev_doc')
            /\ pc' = "pull"
       ELSE /\ emitted' = emitted
            /\ pc' = "drop"
    /\ UNCHANGED <<args, entry, source, rev_docs, stats_doc, tok, second>>

\* line 83, drop_tokens iterated on its own
DropPull ==
    /\ pc = "pull"
    /\ entry = "drop_tokens"
    /\ rev_docs # <<>>
    /\ rev_doc' = Head(rev_docs)
    /\ rev_docs' = Tail(rev_docs)
    /\ pc' = "drop"
    /\ UNCHANGED <<args, entry, source, emitted, stats_doc, tok, second>>

\* lines 84-85
DropTokens ==
    /\ pc = "drop"
    /\ rev_doc' = [rev_doc EXCEPT
                     !.persistence = DictPop(rev_doc.persistence, "tokens")]
    /\ emitted' = Emit(emitted, rev_doc')
    /\ pc' = "pull"
    /\ UNCHANGED <<args, entry, source, rev_docs, stats_doc, tok, second>>

\* the input iterable is exhausted
StopIteration ==
    /\ pc = "pull"
    /\ rev_docs = <<>>
    /\ pc' = "done"
    /\ UNCHANGED <<args, entry, source, rev_docs, emitted, rev_doc, stats_doc,
                   tok, second>>

\* the caller runs a generator again, with the same arguments, on the
\* documents the first run yielded
Rerun ==
    /\ pc = "done"
    /\ ~second
    /\ emitted # <<>>
    /\ second' = TRUE
    /\ entry' \in Entries
    /\ source' = emitted
    /\ rev_docs' = emitted
    /\ emitted' = <<>>
    /\ pc' = "pull"
    /\ UNCHANGED <<args, rev_doc, stats_doc, tok>>

Next ==
    \/ NextRevDoc
    \/ RaiseNoTokens
    \/ SkipToken
    \/ FoldToken
    \/ RaiseKeyError
    \/ Update
    \/ DropPull
    \/ DropTokens
    \/ StopIteration
    \/ Rerun

Spec == Init /\ [][Next]_vars

----------------------------------------------------------------------------
(* What the properties below are stated over.                              *)

\* the eight statistics of a 'persistence' dict
StatsPart(p) == [k \in StatKeys |-> p[k]]

WellFormed(p) == RequiredKeys \subseteq DOMAIN p

\* <<input document, the same document after persistence2stats>> for every
\* document persistence2stats has yielded in this run: the emitted ones and
\* the one drop_tokens is holding
Aggregated ==
    IF entry # "_persistence2stats"
    THEN {}
    ELSE {<<source[k], emitted[k]>> : k \in 1..Len(emitted)}
         \cup (IF pc = "drop" THEN {<<source[Len(emitted) + 1], rev_doc>>} ELSE {})

\* what the upstream stage guarantees of a well-formed dict: no token is
\* seen longer, or through more revisions, than the window allows
Consistent(p) ==
    \A j \in 1..Len(p.tokens) :
        /\ p.tokens[j].seconds_visible <= p.seconds_possible
        /\ p.tokens[j].persisted <= p.revisions_processed
        /\ p.tokens[j].non_self_persisted <= p.non_self_processed

\* the thresholds as the caller supplied them: s seconds against the float
\* min_visible = args.min_visible / Denom
BelowMinVisible(s) == s * Denom < args.min_visible

\* positions of the tokens that pass the filter
RetainedAt(toks) == {j \in 1..Len(toks) : Retained(args, toks[j])}

\* the loop of lines 145-179 over a token list in which every token is
\* retained
RECURSIVE StatsOver(_, _, _, _)
StatsOver(toks, p, mp, mv) ==
    IF toks = <<>>
    THEN NewStatsDoc
    ELSE TokenStats(StatsOver(SubSeq(toks, 1, Len(toks) - 1), p, mp, mv),
                    toks[Len(toks)], p, mp, mv)

----------------------------------------------------------------------------
(* C1: with integer thresholds, after persistence2stats the two flags      *)
(* equal the decision table over the retained tokens: if some retained     *)
(* token has seconds_visible < min_visible then both flags are true when   *)
(* seconds_possible < min_visible, and otherwise censored is true iff      *)
(* revisions_processed < min_persisted and non_self_censored is true iff   *)
(* non_self_processed < min_persisted; if no retained token has            *)
(* seconds_visible < min_visible both flags are false.                     *)
C1_CensoringDecisionTable ==
    \A d \in Aggregated :
        LET p == d[1].persistence
            out == d[2].persistence
            someBelow == \E j \in RetainedAt(p.tokens) :
                             BelowMinVisible(p.tokens[j].seconds_visible)
        IN  (Whole(args.min_visible) /\ WellFormed(p)) =>
              /\ out.censored =
                   (someBelow /\ (\/ BelowMinVisible(p.seconds_possible)
                                  \/ p.revisions_processed < args.min_persisted))
              /\ out.non_self_censored =
                   (someBelow /\ (\/ BelowMinVisible(p.seconds_possible)
                                  \/ p.non_self_processed < args.min_persisted))

\* a document whose window is long enough, with a retained token below the
\* time threshold, too few revisions processed and enough non-self ones
C1_Witness ==
    \E d \in Aggregated :
        LET p == d[1].persistence
            out == d[2].persistence
        IN  /\ Whole(args.min_visible) /\ WellFormed(p)
            /\ \E j \in RetainedAt(p.tokens) :
                   BelowMinVisible(p.tokens[j].seconds_visible)
            /\ ~BelowMinVisible(p.seconds_possible)
            /\ p.revisions_processed < args.min_persisted
            /\ p.non_self_processed >= args.min_persisted
            /\ out.censored /\ ~out.non_self_censored

(* C2: with integer thresholds, persistent_tokens is the number of         *)
(* retained tokens with seconds_visible >= min_visible or persisted >=     *)
(* min_persisted, and non_self_persistent_tokens the number with           *)
(* seconds_visible >= min_visible or non_self_persisted >= min_persisted;  *)
(* so each retained token adds at most one to each counter, and exactly    *)
(* one to both when it meets the time threshold.                           *)
C2_PersistentCounts ==
    \A d \in Aggregated :
        LET p == d[1].persistence
            out == d[2].persistence
            R == RetainedAt(p.tokens)
        IN  Whole(args.min_visible) =>
              /\ out.persistent_tokens =
                   Cardinality({j \in R :
                       \/ ~BelowMinVisible(p.tokens[j].seconds_visible)
                       \/ p.tokens[j].persisted >= args.min_persisted})
              /\ out.non_self_persistent_tokens =
                   Cardinality({j \in R :
                       \/ ~BelowMinVisible(p.tokens[j].seconds_visible)
                       \/ p.tokens[j].non_self_persisted >= args.min_persisted})

\* a retained token that meets the time threshold with persisted = 0 and
\* non_self_persisted = 0, beside one that meets neither threshold
C2_Witness ==
    \E d \in Aggregated :
        LET p == d[1].persistence
            out == d[2].persistence
            R == RetainedAt(p.tokens)
        IN  /\ Whole(args.min_visible)
            /\ Cardinality(R) = 2
            /\ \E j \in R :
                   /\ ~BelowMinVisible(p.tokens[j].seconds_visible)
                   /\ p.tokens[j].persisted = 0
                   /\ p.tokens[j].non_self_persisted = 0
            /\ \E j \in R :
                   /\ BelowMinVisible(p.tokens[j].seconds_visible)
                   /\ p.tokens[j].persisted < args.min_persisted
            /\ out.persistent_tokens = 1
            /\ out.non_self_persistent_tokens = 1

(* C3: a token is folded into the statistics iff include(text) is true and *)
(* exclude(text) is false (include defaults to always-true, exclude to     *)
(* always-false, exclude wins); the statistics of a document are those of  *)
(* the same document with every filtered-out token deleted.                *)
C3_FilteredTokensDoNotCount ==
    \A d \in Aggregated :
        LET p == d[1].persistence
            out == d[2].persistence
            passes(t) ==
                /\ args.include.none \/ t.text \in args.include.hits
                /\ args.exclude.none \/ t.text \notin args.exclude.hits
            kept == SelectSeq(p.tokens, passes)
        IN  WellFormed(p) =>
              /\ out.tokens_added = Len(kept)
              /\ StatsPart(out) =
                   StatsOver(kept, p, args.min_persisted, IntOf(args.min_visible))

\* include and exclude both given: "apple" matches both and is dropped,
\* "berry" matches neither and is dropped; nothing is counted
C3_Witness ==
    \E d \in Aggregated :
        LET p == d[1].persistence
            out == d[2].persistence
        IN  /\ WellFormed(p)
            /\ ~args.include.none /\ ~args.exclude.none
            /\ Len(p.tokens) = 2
            /\ p.tokens[1].text = "apple" /\ p.tokens[2].text = "berry"
            /\ p.tokens[1].seconds_visible = 0 /\ p.seconds_possible = 0
            /\ out.tokens_added = 0
            /\ ~out.censored
            /\ out.sum_log_persisted = 1

(* C4: censored is true only if some retained token was not counted in     *)
(* persistent_tokens, and non_self_censored only if some retained token    *)
(* was not counted in non_self_persistent_tokens.  (Stated over documents  *)
(* whose token records fit their window, as the upstream stage writes.)    *)
C4_CensoredOnlyByNonPersistence ==
    \A d \in Aggregated :
        LET p == d[1].persistence
            out == d[2].persistence
        IN  (Whole(args.min_visible) /\ WellFormed(p) /\ Consistent(p)) =>
              /\ out.censored => out.persistent_tokens < out.tokens_added
              /\ out.non_self_censored =>
                     out.non_self_persistent_tokens < out.tokens_added

(* C5: a second run of persistence2stats, with the same arguments, on the  *)
(* output of a first run that kept the tokens yields the same eight        *)
(* statistics as the first run.                                            *)
C5_SecondRunSameStatistics ==
    \A d \in Aggregated :
        (second /\ StatKeys \subseteq DOMAIN d[1].persistence) =>
            StatsPart(d[2].persistence) = StatsPart(d[1].persistence)

\* a second run over a document that has a retained token and came out of
\* the first run censored
C5_Witness ==
    \E d \in Aggregated :
        /\ second
        /\ StatKeys \subseteq DOMAIN d[1].persistence
        /\ d[1].persistence.tokens_added = 1
        /\ d[1].persistence.censored
        /\ d[2].persistence.tokens_added = 1

(* C6: persistence2stats adds or overwrites only the statistics keys and   *)
(* leaves tokens, the window fields and the fields outside 'persistence'   *)
(* unchanged; drop_tokens removes only persistence.tokens and changes      *)
(* nothing when tokens is absent.                                          *)
C6_OnlyStatisticsAndTokensChange ==
    /\ \A d \in Aggregated :
           LET p == d[1].persistence
               out == d[2].persistence
               pruned == ~args.keep_tokens /\ ~(pc = "drop" /\ d[2] = rev_doc)
               untouched == (DOMAIN p) \ (StatKeys \cup
                                (IF pruned THEN {"tokens"} ELSE {}))
           IN  /\ d[2].rev_id = d[1].rev_id
               /\ DOMAIN out = untouched \cup StatKeys
               /\ \A k \in untouched : out[k] = p[k]
    /\ entry = "drop_tokens" =>
           \A k \in 1..Len(emitted) :
               LET p == source[k].persistence
                   out == emitted[k].persistence
               IN  /\ emitted[k].rev_id = source[k].rev_id
                   /\ DOMAIN out = (DOMAIN p) \ {"tokens"}
                   /\ \A x \in DOMAIN out : out[x] = p[x]
                   /\ "tokens" \notin DOMAIN p => emitted[k] = source[k]

\* keep_tokens false: the emitted document has the statistics and the
\* window fields of its input, and no tokens
C6_Witness ==
    /\ entry = "_persistence2stats"
    /\ ~args.keep_tokens
    /\ Len(emitted) = 1
    /\ Len(source[1].persistence.tokens) = 2
    /\ DOMAIN emitted[1].persistence = WindowKeys \cup StatKeys
    /\ emitted[1].persistence.tokens_added = 2

(* C7: a document whose persistence record lacks one of tokens,            *)
(* seconds_possible, revisions_processed, non_self_processed is never      *)
(* given statistics: aggregating it ends in an error.                      *)
C7_MalformedNeverAggregated ==
    \A d \in Aggregated : WellFormed(d[1].persistence)

(* C8: over well-formed input, _persistence2stats emits one document per   *)
(* input document, in input order; the k-th emitted document is the k-th   *)
(* input document with the statistics of its own token list, and without   *)
(* its tokens when keep_tokens is false.                                   *)
C8_OneOutputPerInputInOrder ==
    LET wf(k) == \A j \in 1..k : WellFormed(source[j].persistence)
        expected(doc) ==
            LET p == doc.persistence
                st == StatsOver(SelectSeq(p.tokens, LAMBDA t : Retained(args, t)),
                                p, args.min_persisted, IntOf(args.min_visible))
                keys == ((DOMAIN p) \cup StatKeys)
                            \ (IF args.keep_tokens THEN {} ELSE {"tokens"})
            IN  [rev_id |-> doc.rev_id,
                 persistence |-> [k \in keys |->
                                    IF k \in StatKeys THEN st[k] ELSE p[k]]]
    IN  entry = "_persistence2stats" =>
          /\ Len(emitted) <= Len(source)
          /\ \A k \in 1..Len(emitted) :
                 wf(k) => emitted[k] = expected(source[k])
          /\ wf(Len(source)) =>
                 /\ pc # "raised"
                 /\ Len(emitted) + Len(rev_docs)
                        + (IF pc \in {"loop", "drop"} THEN 1 ELSE 0) = Len(source)

\* two different well-formed documents, both emitted, tokens pruned
C8_Witness ==
    /\ entry = "_persistence2stats"
    /\ pc = "done"
    /\ ~args.keep_tokens
    /\ Len(source) = 2 /\ Len(emitted) = 2
    /\ \A k \in 1..2 : WellFormed(source[k].persistence)
    /\ source[1].persistence.tokens # source[2].persistence.tokens
    /\ emitted[1].persistence.tokens_added # emitted[2].persistence.tokens_added

(* C9: the statistics do not depend on the order of the token list: every  *)
(* permutation of the tokens yields the same eight statistics.             *)
C9_TokenOrderIrrelevant ==
    \A d \in Aggregated :
        LET p == d[1].persistence
            n == Len(p.tokens)
        IN  WellFormed(p) =>
              \A f \in Permutations(1..n) :
                  LET toks == [j \in 1..n |-> p.tokens[f[j]]]
                  IN  StatsPart(d[2].persistence) =
                        StatsOver(SelectSeq(toks, LAMBDA t : Retained(args, t)),
                                  p, args.min_persisted, IntOf(args.min_visible))

\* two retained tokens, the first below the time threshold and the second
\* meeting it, in a document that comes out censored
C9_Witness ==
    \E d \in Aggregated :
        LET p == d[1].persistence
        IN  /\ WellFormed(p)
            /\ Len(p.tokens) = 2
            /\ RetainedAt(p.tokens) = {1, 2}
            /\ p.tokens[1].seconds_visible < IntOf(args.min_visible)
            /\ p.tokens[2].seconds_visible >= IntOf(args.min_visible)
            /\ p.tokens[1].persisted # p.tokens[2].persisted
            /\ d[2].persistence.censored
            /\ d[2].persistence.persistent_tokens = 1

(* C10: the time threshold is applied as supplied, also when fractional:   *)
(* a retained token with seconds_visible strictly below min_visible is not *)
(* counted as persistent by time, and the censoring test holds for every   *)
(* seconds_possible strictly below min_visible.                            *)
C10_FractionalThresholdApplied ==
    \A d \in Aggregated :
        LET p == d[1].persistence
            out == d[2].persistence
            R == RetainedAt(p.tokens)
            below == {j \in R : BelowMinVisible(p.tokens[j].seconds_visible)}
        IN  WellFormed(p) =>
              /\ out.persistent_tokens =
                   Cardinality(R \ below) +
                   Cardinality({j \in below :
                       p.tokens[j].persisted >= args.min_persisted})
              /\ (below # {} /\ BelowMinVisible(p.seconds_possible)) =>
                     (out.censored /\ out.non_self_censored)

====
